---- MODULE Spec2Model ----
(***************************************************************************)
(* Model of simple_form.py: the notices store (class Model), its schema    *)
(* reconciliation, the command-line dispatcher (class Command, __main__)   *)
(* and two interleaved close_entry calls on one database file.             *)
(*                                                                         *)
(* Optional values (Python None / SQL NULL) are sequences of length <= 1:  *)
(* None is <<>> and a present value v is <<v>>.                            *)
(***************************************************************************)
EXTENDS Integers, Sequences, FiniteSets, TLC

\* ------------------------------------------------------------------ bounds
MaxNotices == 3
MaxTime == 2
MaxCount == 2
MaxOffset == 2

\* ------------------------------------------------------- program constants
schema_version == 1
ToolMissingCode == 127

None == <<>>
Some(v) == <<v>>

Names == {"Alice"}
Hello == <<"H", "e", "l", "l", "o">>
Messages == {Hello}
Widths == {2}
Entries == 1..(MaxNotices + 1)

BaseCols == {"id", "name", "message", "postdate", "closedate"}

VARIABLES
    tables,     \* database file: names of the tables that exist
    columns,    \* database file: columns of table notices
    notices,    \* database file: rows of table notices
    versions,   \* database file: rows of table versions
    seq,        \* database file: sqlite_sequence entry of notices (AUTOINCREMENT)
    now,        \* wall clock in seconds (CURRENT_TIMESTAMP, DATETIME('NOW'))
    opened,     \* a Model instance (and its connection) exists
    txn,        \* rows written by the connection and not yet committed
    last,       \* what the last store call did and returned
    proc,       \* what the last command-line run did
    closer      \* two request handlers running close_entry step by step

vars == <<tables, columns, notices, versions, seq, now, opened, txn, last,
          proc, closer>>

\* ------------------------------------------------------------ SQL helpers
Min(a, b) == IF a < b THEN a ELSE b
Max(a, b) == IF a > b THEN a ELSE b

\* SELECT COUNT(id) FROM notices WHERE closedate IS NULL
get_open_entry_count(ns) == Cardinality({r \in ns : r.closedate = None})

\* ... WHERE closedate IS NULL
OpenRows(ns) == {r \in ns : r.closedate = None}

\* ... ORDER BY id DESC : the rows of a set as a sequence, greatest id first
RECURSIVE OrderByIdDesc(_)
OrderByIdDesc(rs) ==
    IF rs = {} THEN <<>>
    ELSE LET r == CHOOSE x \in rs : \A y \in rs : x.id >= y.id
         IN  <<r>> \o OrderByIdDesc(rs \ {r})

\* ... LIMIT count OFFSET offset
LimitOffset(s, count, offset) ==
    SubSeq(s, offset + 1, Min(Len(s), offset + count))

\* SUBSTR(message, 1, width)
Substr(m, width) == SubSeq(m, 1, Min(Len(m), width))

\* the offset get_open_entries hands to OFFSET
PageOffsetRaw(count, offset) == offset
PageOffset(count, offset) == offset * count

\* int(a / b) on Python 2 ints
PyIntDiv(a, b) == a \div b

\* the result columns id, name, postdate, SUBSTR(message, 1, ?)
Project(r, width) == <<r.id, r.name, r.postdate, Substr(r.message, width)>>

get_open_entries(ns, count, offset, width) ==
    LET off     == PageOffset(count, offset)
        current == LimitOffset(OrderByIdDesc(OpenRows(ns)), count, off)
    IN  [rows      |-> [i \in 1..Len(current) |-> Project(current[i], width)],
         pagecount |-> PyIntDiv(get_open_entry_count(ns), count)]

\* SELECT ... FROM notices WHERE id=?
SelectById(ns, entry) == {r \in ns : r.id = entry}

\* truth value of the sqlite3.Cursor object execute() returns: a Cursor
\* defines neither __nonzero__ nor __len__, so it is true whatever it holds
CursorTruth(cur) == TRUE

\* cursor.fetchone(): the next row, or None when there is none
fetchone(cur) == IF cur = {} THEN None ELSE Some(CHOOSE r \in cur : TRUE)

\* row[4] is not None
AlreadyClosedNever(row) == FALSE
AlreadyClosed(row) == row.closedate # None

\* UPDATE notices set closedate=DATETIME('NOW') WHERE id=?
UpdateCloseAll(ns, entry, t) ==
    {[r EXCEPT !.closedate = Some(t)] : r \in ns}
UpdateCloseIfOpen(ns, entry, t) ==
    {IF r.id = entry /\ r.closedate = None
     THEN [r EXCEPT !.closedate = Some(t)] ELSE r : r \in ns}
UpdateClose(ns, entry, t) ==
    {IF r.id = entry THEN [r EXCEPT !.closedate = Some(t)] ELSE r : r \in ns}

\* db.commit(): the connection's pending rows of versions reach the file
\* (component is UNIQUE, INSERT OR REPLACE drops the row it conflicts with)
Replace(vs, rows) ==
    {v \in vs : \A w \in rows : w.component # v.component} \cup rows
Commit(vs, pending) == Replace(vs, pending)

\* ----------------------------------------------------------- call records
NoCall == [op |-> "none", entry |-> 0, outcome |-> "none", id |-> 0,
           when |-> None, rows |-> <<>>, pagecount |-> 0,
           count |-> 0, offset |-> 0, width |-> 0,
           migrateCalls |-> 0, alterAttempts |-> 0, migrateRet |-> None,
           fail |-> "none", error |-> "none"]

NoProc == [ran |-> FALSE, cmd |-> "", args |-> <<>>, tool |-> None,
           exit |-> 0, stderr |-> "", backups |-> 0]

Idle == [pc |-> "idle", entry |-> 0, row |-> None, outcome |-> "none",
         at |-> 0]

\* ------------------------------------------------------------------- Init
\* The database file Model(dbfile) is pointed at: either absent, or a file an
\* earlier schema left behind (notices without parent_id, versions at 0).
FreshFile == [tables |-> {}, columns |-> {}, versions |-> {}]
OlderFile == [tables |-> {"notices", "versions"}, columns |-> BaseCols,
              versions |-> {[component |-> "schema", version |-> 0]}]
Files == {FreshFile, OlderFile}

Init ==
    /\ \E f \in Files :
         /\ tables = f.tables
         /\ columns = f.columns
         /\ versions = f.versions
    /\ notices = {}
    /\ seq = 0
    /\ now = 1
    /\ opened = FALSE
    /\ txn = {}
    /\ last = NoCall
    /\ proc = NoProc
    /\ closer = [p \in {1, 2} |-> Idle]

\* ------------------------------------------------------------------ clock
Tick ==
    /\ now < MaxTime
    /\ now' = now + 1
    /\ UNCHANGED <<tables, columns, notices, versions, seq, opened, txn,
                   last, proc, closer>>

\* ----------------------------------------------------------- create_entry
\* INSERT INTO notices (name, message) VALUES (?, ?) on an AUTOINCREMENT key:
\* the new id is one more than the largest id the table ever held
NextIdReuse(ns, s) == Cardinality(OpenRows(ns)) + 1
NextId(ns, s) ==
    LET ids == {r.id : r \in ns}
        top == IF ids = {} THEN 0 ELSE CHOOSE i \in ids : \A j \in ids : i >= j
    IN  Max(s, top) + 1

create_entry(name, message) ==
    /\ opened
    /\ Cardinality(notices) < MaxNotices
    /\ IF name = None \/ message = None
       THEN \* NOT NULL constraint: sqlite3.IntegrityError leaves execute()
            /\ last' = [NoCall EXCEPT !.op = "create",
                                      !.error = "IntegrityError"]
            /\ UNCHANGED <<notices, seq, versions, txn>>
       ELSE LET newid == NextId(notices, seq)
            IN  /\ notices' = notices \cup
                       {[id |-> newid, name |-> name[1], message |-> message[1],
                         postdate |-> now, closedate |-> None]}
                /\ seq' = newid
                /\ versions' = Commit(versions, txn)
                /\ txn' = {}
                /\ last' = [NoCall EXCEPT !.op = "create", !.id = newid,
                                          !.outcome = "created"]
    /\ UNCHANGED <<tables, columns, now, opened, proc, closer>>

\* ------------------------------------------------------------ close_entry
close_entry(entry) ==
    /\ opened
    /\ LET cur == SelectById(notices, entry)
       IN  IF CursorTruth(cur)
           THEN LET row == fetchone(cur)
                IN  IF row = None
                    THEN \* row[4] on None: TypeError leaves close_entry
                         /\ last' = [NoCall EXCEPT !.op = "close",
                                                   !.entry = entry,
                                                   !.error = "TypeError"]
                         /\ UNCHANGED <<notices, versions, txn>>
                    ELSE IF AlreadyClosed(row[1])
                    THEN /\ last' = [NoCall EXCEPT !.op = "close",
                                                   !.entry = entry,
                                                   !.outcome = "already",
                                                   !.id = row[1].id,
                                                   !.when = row[1].closedate]
                         /\ UNCHANGED <<notices, versions, txn>>
                    ELSE /\ notices' = UpdateClose(notices, entry, now)
                         /\ versions' = Commit(versions, txn)
                         /\ txn' = {}
                         /\ last' = [NoCall EXCEPT !.op = "close",
                                                   !.entry = entry,
                                                   !.outcome = "closed",
                                                   !.id = row[1].id]
           ELSE /\ last' = [NoCall EXCEPT !.op = "close", !.entry = entry,
                                          !.outcome = "bad"]
                /\ UNCHANGED <<notices, versions, txn>>
    /\ UNCHANGED <<tables, columns, seq, now, opened, proc, closer>>

\* ------------------------------------------------------- get_open_entries
list_open(count, offset, width) ==
    /\ opened
    /\ LET res == get_open_entries(notices, count, offset, width)
       IN  last' = [NoCall EXCEPT !.op = "list", !.rows = res.rows,
                                  !.pagecount = res.pagecount,
                                  !.count = count, !.offset = offset,
                                  !.width = width]
    /\ UNCHANGED <<tables, columns, notices, versions, seq, now, opened, txn,
                   proc, closer>>

\* --------------------------------------------- Model.__init__, check_schema
\* CREATE TABLE IF NOT EXISTS t: never an error, no effect when t exists
CreateTableStrict(tbls, t) ==
    [ok |-> t \notin tbls, tables |-> tbls \cup {t}]
CreateTableIfNotExists(tbls, t) ==
    [ok |-> TRUE, tables |-> tbls \cup {t}]

\* Python 2 values as far as check_schema compares them
PyInt(n) == [type |-> "int", val |-> n]
PyTuple(t) == [type |-> "tuple", val |-> t]

\* a < b on Python 2 objects: ints by value; an int sorts before an object of
\* any other type; 1-tuples of ints by their element
Py2Less(a, b) ==
    CASE a.type = "int" /\ b.type = "int" -> a.val < b.val
      [] a.type = "int" /\ b.type # "int" -> TRUE
      [] a.type # "int" /\ b.type = "int" -> FALSE
      [] OTHER -> a.val[1] < b.val[1]

\* SELECT version FROM versions WHERE component = 'schema', then fetchall():
\* a list of row tuples
RECURSIVE fetchall(_)
fetchall(rows) ==
    IF rows = {} THEN <<>>
    ELSE LET r == CHOOSE x \in rows : TRUE
         IN  <<PyTuple(<<r.version>>)>> \o fetchall(rows \ {r})

SelectSchemaVersion(vs) == fetchall({v \in vs : v.component = "schema"})

\* not ver or ver[0] < Model.schema_version
NeedsMigration(ver) ==
    \/ ver = <<>>
    \/ Py2Less(ver[1], PyInt(schema_version))

FailPoints == {"none", "alter", "insert", "commit"}

\* migrate(): ALTER TABLE notices ADD COLUMN parent_id, then INSERT OR REPLACE
\* of ('schema', 1), then commit, any sqlite3.Error answered by return False.
\* The ALTER is not part of a transaction (the sqlite3 module opens one only in
\* front of INSERT/UPDATE/DELETE/REPLACE), so it is in the file at once; the
\* except clause rolls nothing back.  fail names the statement the storage
\* layer refuses; ALTER also fails when the column is already there.
migrate(cols, vs, fail) ==
    LET row == [component |-> "schema", version |-> 1]
    IN  IF fail = "alter" \/ "parent_id" \in cols
        THEN [columns |-> cols, versions |-> vs, txn |-> {}, ret |-> FALSE]
        ELSE IF fail = "insert"
        THEN [columns |-> cols \cup {"parent_id"}, versions |-> vs,
              txn |-> {}, ret |-> FALSE]
        ELSE IF fail = "commit"
        THEN [columns |-> cols \cup {"parent_id"}, versions |-> vs,
              txn |-> {row}, ret |-> FALSE]
        ELSE [columns |-> cols \cup {"parent_id"},
              versions |-> Commit(vs, {row}), txn |-> {}, ret |-> TRUE]

\* check_schema(): make sure versions exists, read the stored version, migrate
\* when NeedsMigration says so
check_schema(tbls, cols, vs, fail) ==
    LET mk  == CreateTableIfNotExists(tbls, "versions")
        ver == SelectSchemaVersion(vs)
    IN  IF ~mk.ok
        THEN [ok |-> FALSE, tables |-> tbls, columns |-> cols, versions |-> vs,
              txn |-> {}, migrateCalls |-> 0, ret |-> None]
        ELSE IF NeedsMigration(ver)
        THEN LET m == migrate(cols, vs, fail)
             IN  [ok |-> TRUE, tables |-> mk.tables, columns |-> m.columns,
                  versions |-> m.versions, txn |-> m.txn, migrateCalls |-> 1,
                  ret |-> Some(m.ret)]
        ELSE [ok |-> TRUE, tables |-> mk.tables, columns |-> cols,
              versions |-> vs, txn |-> {}, migrateCalls |-> 0, ret |-> None]

\* Model(dbfile): a new connection (what an earlier connection left
\* uncommitted is gone), CREATE TABLE IF NOT EXISTS notices, check_schema()
ModelInit(fail) ==
    /\ LET prep == CreateTableIfNotExists(tables, "notices")
           cols == IF "notices" \in tables THEN columns ELSE BaseCols
           chk  == check_schema(prep.tables, cols, versions, fail)
       IN  IF ~prep.ok \/ ~chk.ok
           THEN \* sqlite3.OperationalError leaves the constructor
                /\ opened' = FALSE
                /\ txn' = {}
                /\ last' = [NoCall EXCEPT !.op = "init", !.fail = fail,
                                          !.error = "OperationalError"]
                /\ UNCHANGED <<tables, columns, versions>>
           ELSE /\ opened' = TRUE
                /\ tables' = chk.tables
                /\ columns' = chk.columns
                /\ versions' = chk.versions
                /\ txn' = chk.txn
                /\ last' = [NoCall EXCEPT !.op = "init", !.fail = fail,
                                          !.migrateCalls = chk.migrateCalls,
                                          !.alterAttempts = chk.migrateCalls,
                                          !.migrateRet = chk.ret]
    /\ UNCHANGED <<notices, seq, now, proc, closer>>

\* ------------------------------------------------------ Command, __main__
\* the names hasattr(Command, cmd) finds among those tried here, and the ones
\* getattr() answers with a callable
CommandAttrs == {"call", "backup", "__doc__"}
CallableAttrs == {"call", "backup"}
Cmds == {"backup", "call", "__doc__", "restore"}
ArgLists == {<<>>, <<"f">>, <<"backup">>, <<"backup", "f">>, <<"f", "g">>}

\* what subprocess.call(['sqlite3', ...]) does: None when the tool cannot be
\* executed (EnvironmentError), else its exit code
ToolOutcomes == {None, Some(0), Some(1), Some(2)}

UnknownCommandChars ==
    <<"U", "n", "k", "n", "o", "w", "n", " ", "c", "o", "m", "m", "a", "n", "d">>

PyStr(text, chars) == [type |-> "str", text |-> text, items |-> chars]
PyPair(code, msg) == [type |-> "tuple", text |-> msg, items |-> <<code, msg>>]

Returned(v, n) == [raised |-> "none", value |-> v, backups |-> n]
Raised(exc) == [raised |-> exc, value |-> PyStr("", <<>>), backups |-> 0]

\* Command.backup(filename='notifications.db.bak')
backup(args, tool) ==
    IF Len(args) > 1 THEN Raised("TypeError")
    ELSE IF tool = None
    THEN Returned(PyPair(ToolMissingCode, "Unable to execute sqlite3"), 0)
    ELSE IF tool[1] # 0
    THEN Returned(PyPair(tool[1], "Some error occurred"), 1)
    ELSE Returned(PyPair(tool[1], "Success"), 1)

\* Command.call(cmd, *args)
RECURSIVE call(_, _, _)
call(cmd, args, tool) ==
    IF cmd \in CommandAttrs /\ cmd \in CallableAttrs
    THEN IF cmd = "backup" THEN backup(args, tool)
         ELSE IF args = <<>> THEN Raised("TypeError")
         ELSE call(Head(args), Tail(args), tool)
    ELSE Returned(PyStr("Unknown command", UnknownCommandChars), 0)

\* exitval, msg = <value>: the value must yield exactly two items
Unpacks(v) == Len(v.items) = 2

\* __main__ with arguments: dispatch, print msg to stderr, sys.exit(exitval);
\* an exception nobody catches prints a traceback and exits with status 1
Main(cmd, args, tool) ==
    /\ LET r == call(cmd, args, tool)
       IN  proc' =
             IF r.raised # "none"
             THEN [ran |-> TRUE, cmd |-> cmd, args |-> args, tool |-> tool,
                   exit |-> 1, stderr |-> "Traceback", backups |-> r.backups]
             ELSE IF ~Unpacks(r.value)
             THEN [ran |-> TRUE, cmd |-> cmd, args |-> args, tool |-> tool,
                   exit |-> 1, stderr |-> "Traceback", backups |-> r.backups]
             ELSE [ran |-> TRUE, cmd |-> cmd, args |-> args, tool |-> tool,
                   exit |-> r.value.items[1], stderr |-> r.value.text,
                   backups |-> r.backups]
    /\ UNCHANGED <<tables, columns, notices, versions, seq, now, opened, txn,
                   last, closer>>

\* ------------------------------- close_entry, one SQL statement at a time
\* lines 98-105: SELECT, fetchone and the tests on the row that was read. When
\* the row is missing (TypeError) or already closed the call ends here and the
\* handler is free again; otherwise it goes on to the UPDATE.
CloseSelect(p, entry) ==
    /\ opened
    /\ closer[p].pc = "idle"
    /\ LET cur == SelectById(notices, entry)
           row == fetchone(cur)
       IN  closer' = [closer EXCEPT ![p] =
             IF ~CursorTruth(cur) THEN Idle
             ELSE IF row = None THEN Idle
             ELSE IF AlreadyClosed(row[1]) THEN Idle
             ELSE [Idle EXCEPT !.pc = "selected", !.entry = entry,
                               !.row = row]]
    /\ UNCHANGED <<tables, columns, notices, versions, seq, now, opened, txn,
                   last, proc>>

\* lines 106-108: UPDATE, commit, return 'Entry_%s_closed'
CloseUpdate(p) ==
    /\ closer[p].pc = "selected"
    /\ notices' = UpdateClose(notices, closer[p].entry, now)
    /\ versions' = Commit(versions, txn)
    /\ txn' = {}
    /\ closer' = [closer EXCEPT ![p].pc = "done", ![p].outcome = "closed",
                                ![p].at = now]
    /\ UNCHANGED <<tables, columns, seq, now, opened, last, proc>>

\* the handler has answered; the worker takes the next request
CloseReturn(p) ==
    /\ closer[p].pc = "done"
    /\ closer' = [closer EXCEPT ![p] = Idle]
    /\ UNCHANGED <<tables, columns, notices, versions, seq, now, opened, txn,
                   last, proc>>

\* --------------------------------------------------------- specifications
Create == \E n \in {None} \cup {Some(x) : x \in Names},
             m \in {None} \cup {Some(x) : x \in Messages} : create_entry(n, m)
Close == \E e \in Entries : close_entry(e)
List == \E c \in 1..MaxCount, o \in 0..MaxOffset, w \in Widths :
            list_open(c, o, w)
Open == ModelInit("none")
OpenFail == \E f \in FailPoints : ModelInit(f)
Run == \E c \in Cmds, a \in ArgLists, t \in ToolOutcomes : Main(c, a, t)
RaceSelect == \E p \in {1, 2}, e \in Entries : CloseSelect(p, e)
RaceUpdate == \E p \in {1, 2} : CloseUpdate(p)
RaceReturn == \E p \in {1, 2} : CloseReturn(p)

\* one process, every store call runs to completion
Next == Tick \/ Open \/ Create \/ Close \/ List
Spec == Init /\ [][Next]_vars

\* the program as started from the shell: without arguments it opens the store
\* and serves, with arguments it runs a command
NextCli == Open \/ Run
SpecCli == Init /\ [][NextCli]_vars

\* the same, with the storage layer refusing a statement of migrate
NextFail == Tick \/ OpenFail \/ Create \/ Close
SpecFail == Init /\ [][NextFail]_vars

\* two handlers closing concurrently
NextRace == Tick \/ Open \/ Create \/ RaceSelect \/ RaceUpdate \/ RaceReturn
SpecRace == Init /\ [][NextRace]_vars

\* ----------------------------------------------------------------- claims
dbfile == <<tables, columns, notices, versions, seq>>
OpenCount == get_open_entry_count(notices)
StoreCall(op) == last' # last /\ last'.op = op
StoredSchema == {v.version : v \in {x \in versions : x.component = "schema"}}
SomeClosed == \E r \in notices : r.closedate # None

\* C1: for a notice create_entry made, the first close_entry(id) takes
\* closedate from null to a value and answers 'closed'; every later
\* close_entry(id) answers 'already closed' and leaves the database as it was;
\* a closedate that is set never changes again.
C1_CloseOnce ==
    [][ /\ \A r \in notices : r.closedate # None => r \in notices'
        /\ (StoreCall("close") /\ SelectById(notices, last'.entry) # {}) =>
             LET r == CHOOSE x \in notices : x.id = last'.entry
             IN  IF r.closedate = None
                 THEN /\ last'.outcome = "closed"
                      /\ \E r2 \in notices' :
                           r2.id = r.id /\ r2.closedate # None
                 ELSE /\ last'.outcome = "already"
                      /\ last'.when = r.closedate
                      /\ dbfile' = dbfile ]_vars

C1_Witness ==
    /\ last.op = "close"
    /\ last.outcome = "already"
    /\ \E r \in notices : r.id = last.entry /\ r.closedate = last.when

\* C2: close_entry(id) with an id no row has answers 'Bad entry: Cannot close'
\* as a value, fails in no other way, and changes nothing.
C2_NotFoundIsValue ==
    [][ (StoreCall("close") /\ SelectById(notices, last'.entry) = {}) =>
            /\ last'.outcome = "bad"
            /\ last'.error = "none"
            /\ dbfile' = dbfile ]_vars

\* C3: a run of migrate either adds parent_id and records ('schema', 1), both,
\* and returns True, or persists neither and returns False.
C3_AllOrNothing ==
    [][ (StoreCall("init") /\ last'.migrateCalls = 1) =>
            \/ /\ "parent_id" \in columns'
               /\ [component |-> "schema", version |-> 1] \in versions'
               /\ last'.migrateRet = Some(TRUE)
            \/ /\ ("parent_id" \in columns') = ("parent_id" \in columns)
               /\ versions' = versions
               /\ txn' = {}
               /\ last'.migrateRet = Some(FALSE) ]_vars

\* C4: once a Model(dbfile) has run, running Model(dbfile) again leaves the
\* tables, the columns of notices, every notice row and the versions rows as
\* they were, and raises nothing.
C4_InitIdempotent ==
    [][ (StoreCall("init") /\ opened) =>
            /\ dbfile' = dbfile
            /\ last'.error = "none"
            /\ opened' ]_vars

C4_Witness ==
    /\ opened
    /\ last.op = "init"
    /\ last.error = "none"
    /\ SomeClosed
    /\ OpenCount >= 1

\* C5: check_schema calls migrate exactly when versions holds no 'schema' row
\* or a version below schema_version, then exactly once; at schema_version no
\* ALTER TABLE is attempted.
C5_MigrateWhenBehind ==
    [][ StoreCall("init") =>
            /\ last'.migrateCalls =
                 IF StoredSchema = {} \/ \E v \in StoredSchema : v < schema_version
                 THEN 1 ELSE 0
            /\ (StoredSchema = {schema_version} => last'.alterAttempts = 0)
      ]_vars

\* C6: the open count is the number of notices less the closed ones;
\* create_entry raises it by one, close_entry of an open notice lowers it by
\* one, close_entry of a closed or unknown id leaves it alone.
C6_OpenCount ==
    [][ /\ OpenCount' = Cardinality(notices') -
                        Cardinality({r \in notices' : r.closedate # None})
        /\ (StoreCall("create") /\ last'.outcome = "created") =>
               OpenCount' = OpenCount + 1
        /\ StoreCall("close") =>
               LET hit == SelectById(notices, last'.entry)
               IN  IF hit # {} /\ \A r \in hit : r.closedate = None
                   THEN OpenCount' = OpenCount - 1
                   ELSE OpenCount' = OpenCount ]_vars

C6_Witness ==
    /\ last.op = "close"
    /\ last.outcome = "closed"
    /\ OpenCount >= 1
    /\ Cardinality(notices) >= 3

\* C7: create_entry with both fields present returns an id above every id
\* handed out before, closed notices included, and a get_open_entries(count,
\* 0) right after it has the new notice as its first row.
C7_CreateNewestFirst ==
    [][ (StoreCall("create") /\ last'.outcome = "created") =>
            /\ \A r \in notices : last'.id > r.id
            /\ last'.id > seq
            /\ \A c \in 1..MaxCount, w \in Widths :
                 LET res == get_open_entries(notices', c, 0, w)
                 IN  /\ Len(res.rows) >= 1
                     /\ res.rows[1][1] = last'.id ]_vars

C7_Witness ==
    /\ last.op = "create"
    /\ last.outcome = "created"
    /\ SomeClosed
    /\ \E r \in notices : r.id = last.id /\ r.closedate = None
    /\ Cardinality(notices) >= 2

\* C8: get_open_entries(count, offset) returns the open notices that have
\* exactly offset*count .. offset*count+count-1 open notices of greater id, in
\* that order, with pagecount = floor(open count / count), and changes no
\* stored data.
PageOf ==
    LET open  == {r \in notices : r.closedate = None}
        c     == last.count
        off   == last.offset * c
        total == Cardinality(open)
    IN  /\ Len(last.rows) = Max(0, Min(c, total - off))
        /\ \A i \in 1..Len(last.rows) :
             \E r \in open :
                /\ last.rows[i][1] = r.id
                /\ last.rows[i][2] = r.name
                /\ last.rows[i][3] = r.postdate
                /\ Cardinality({x \in open : x.id > r.id}) = off + i - 1
        /\ last.pagecount * c <= total
        /\ total < (last.pagecount + 1) * c

C8_Page ==
    [][ StoreCall("list") => (PageOf' /\ dbfile' = dbfile /\ txn' = txn) ]_vars

C8_Witness ==
    /\ last.op = "list"
    /\ last.offset >= 1
    /\ last.count = 2
    /\ Len(last.rows) = 1
    /\ last.pagecount = 1

\* C9: a first argument other than 'backup' prints 'Unknown command', exits
\* non-zero and runs nothing; 'backup' exits with the tool's exit code when
\* the tool fails and with 127 when the tool cannot be executed.
C9_Dispatch ==
    proc.ran =>
        /\ proc.cmd # "backup" =>
             /\ proc.stderr = "Unknown command"
             /\ proc.exit # 0
             /\ proc.backups = 0
        /\ (proc.cmd = "backup" /\ Len(proc.args) <= 1) =>
             /\ proc.tool = None => proc.exit = ToolMissingCode
             /\ (proc.tool # None /\ proc.tool # Some(0)) =>
                    proc.exit = proc.tool[1]

\* C10: two close_entry calls on one open notice that both read closedate as
\* null both run the UPDATE and both answer 'closed'; the later UPDATE
\* overwrites the closedate the earlier one stored.
BothReadNull ==
    /\ closer[1].pc = "done"
    /\ closer[2].pc = "done"
    /\ closer[1].entry = closer[2].entry
    /\ closer[1].row # None
    /\ closer[2].row # None
    /\ closer[1].row[1].closedate = None
    /\ closer[2].row[1].closedate = None

C10_DoubleClose ==
    BothReadNull =>
        /\ closer[1].outcome = "closed"
        /\ closer[2].outcome = "closed"
        /\ \E r \in notices :
             /\ r.id = closer[1].entry
             /\ r.closedate = Some(Max(closer[1].at, closer[2].at))

C10_Witness ==
    /\ BothReadNull
    /\ closer[1].at # closer[2].at

====
